---- MODULE Spec2Model ----
(***************************************************************************)
(* Model of jira_auto_reply.py: a scheduled job that, inside a daily reply *)
(* window, searches for unassigned To-Do tickets updated since the last    *)
(* run, comments on, assigns and transitions each of them, and then saves  *)
(* the time of the run as the new watermark.                               *)
(*                                                                         *)
(* Time is an integer clock; a day has DayLen ticks, so timedelta(days=1)  *)
(* is DayLen and a time of day is clock % DayLen.  A ticket key TS-k is    *)
(* the integer k; NoKey stands for an issue without "key".                 *)
(***************************************************************************)
EXTENDS Integers, Sequences, FiniteSets

\* ------------------------------------------------------------- bounds
DayLen == 3
Horizon == 1
NumTickets == 2
MaxComments == 2

MaxClock == DayLen + Horizon
TimesOfDay == 0 .. (DayLen - 1)
Keys == 1 .. NumTickets
NoKey == 0

VARIABLES
    clock,      \* the wall clock (datetime.now())
    file,       \* the content of the file at config.last_run_path
    tickets,    \* the ticketing system: key -> assignee, status, comments
    pc,         \* position of main()
    cfg,        \* the Config of this run (window_start, window_end)
    now,        \* main's local `now`
    since,      \* main's local `last_run`
    issues,     \* main's local `issues`: the keys the search returned
    idx,        \* process_issues: index of the current issue
    trIdx,      \* process_issues: which of the three transitions is next
    count,      \* process_issues: `count`
    log,        \* the API operations issued by this run, in order
    tr,         \* the most recent call of jira_transition_issue
    ret,        \* how main ended: "0", "1", "raised", or "none"
    err,        \* the exception that ended the run
    fileRead,   \* whether this run looked at the watermark file
    writes,     \* how many times this run wrote the watermark file
    lastSaved,  \* history: the `now` of the latest successful save
    pending     \* history: the latest run aborted inside process_issues

vars == <<clock, file, tickets, pc, cfg, now, since, issues, idx, trIdx,
          count, log, tr, ret, err, fileRead, writes, lastSaved, pending>>

\* ------------------------------------------------------- configuration
\* Config.todo_transition, in_progress_transition, waiting_transition
todo_transition == "To-Do"
in_progress_transition == "Iprogress"
waiting_transition == "Wating for clinet"

\* the three jira_transition_issue calls of process_issues, in code order
TransitionOrderSwapped == <<in_progress_transition, todo_transition, waiting_transition>>
TransitionOrder == <<todo_transition, in_progress_transition, waiting_transition>>

\* the windows WINDOW_START/WINDOW_END are drawn from: a same-day window
\* and one that spans midnight
Windows == {<<0, DayLen - 2>>, <<DayLen - 1, 0>>}

NoCfg == [ok |-> FALSE, window_start |-> 0, window_end |-> 0]

\* ------------------------------------------------------- reply window
TimeOfDay(t) == t % DayLen

within_reply_window_exclusive(start, end, current) ==
    IF start <= end
    THEN start <= current /\ current < end
    ELSE current >= start \/ current <= end
within_reply_window(start, end, current) ==
    IF start <= end
    THEN start <= current /\ current <= end
    ELSE current >= start \/ current <= end

\* ----------------------------------------------------- watermark file
\* datetime.isoformat / datetime.fromisoformat: the text of a timestamp
isoformat(t) == [text |-> "iso", t |-> t]
IsIsoText(v) == v.text = "iso"
fromisoformat(v) == v.t

Missing == [kind |-> "missing", payload |-> {}]
Unreadable == [kind |-> "unreadable", payload |-> {}]
NotJson == [kind |-> "notjson", payload |-> {}]
JsonFile(payload) == [kind |-> "json", payload |-> payload]
NoKeyFile == JsonFile({})
BadIsoFile == JsonFile({[key |-> "last_run", value |-> [text |-> "yesterday", t |-> 0]]})

CorruptFiles == {Missing, Unreadable, NotJson, NoKeyFile, BadIsoFile}

\* what save_last_run leaves in the file: {"last_run": timestamp.isoformat()}
save_last_run_other_key(timestamp) ==
    JsonFile({[key |-> "lastRun", value |-> isoformat(timestamp)]})
save_last_run(timestamp) ==
    JsonFile({[key |-> "last_run", value |-> isoformat(timestamp)]})

\* payload["last_run"]: the values under that key (none: KeyError)
Lookup(payload, key) == {e.value : e \in {x \in payload : x.key = key}}

\* load_last_run: the default on a missing file and on any exception
load_last_run_epoch(f, clk) ==
    IF f.kind = "missing" THEN clk - DayLen
    ELSE IF f.kind # "json" THEN 0
    ELSE LET vs == Lookup(f.payload, "last_run") IN
         IF vs = {} THEN 0
         ELSE LET v == CHOOSE x \in vs : TRUE IN
              IF IsIsoText(v) THEN fromisoformat(v) ELSE 0
load_last_run(f, clk) ==
    IF f.kind = "missing" THEN clk - DayLen
    ELSE IF f.kind # "json" THEN clk - DayLen
    ELSE LET vs == Lookup(f.payload, "last_run") IN
         IF vs = {} THEN clk - DayLen
         ELSE LET v == CHOOSE x \in vs : TRUE IN
              IF IsIsoText(v) THEN fromisoformat(v) ELSE clk - DayLen

\* ---------------------------------------------------- ticketing system
\* the workflow transitions a listing can offer: id, name
Tr(id, name) == [id |-> id, name |-> name]
Listings ==
    { <<Tr("11", "To-Do"), Tr("55", "Iprogress"), Tr("77", "Wating for clinet")>>,
      <<Tr("56", "iprogress"), Tr("11", "To-Do"), Tr("77", "Wating for clinet")>>,
      <<Tr("55", "Iprogress"), Tr("57", "Iprogress"), Tr("11", "To-Do"),
        Tr("77", "Wating for clinet")>>,
      <<>> }

\* the status a ticket is in after the POST of a transition id
StatusAfter(id) ==
    CASE id = "11" -> "In Progress"
      [] id \in {"55", "56", "57"} -> "Waiting"
      [] OTHER -> "In Progress"

Lower(s) == IF s = "Iprogress" THEN "iprogress" ELSE s

\* next((item for item in transitions if item.get("name") == name), None):
\* the index of the first item with that name, 0 for None
FindTransitionAnyCase(transitions, name) ==
    LET hits == {i \in 1 .. Len(transitions) :
                    Lower(transitions[i].name) = Lower(name)}
    IN IF hits = {} THEN 0 ELSE CHOOSE i \in hits : \A j \in hits : i <= j
FindTransition(transitions, name) ==
    LET hits == {i \in 1 .. Len(transitions) : transitions[i].name = name}
    IN IF hits = {} THEN 0 ELSE CHOOSE i \in hits : \A j \in hits : i <= j

\* the JQL of jira_search_issues: assignee is EMPTY AND status = "To-Do"
\* AND updated >= last_run
Matches(k, last_run) ==
    /\ ~tickets[k].assigned
    /\ tickets[k].status = "To-Do"
    /\ tickets[k].updated >= last_run

RECURSIVE KeysFrom(_, _)
\* ORDER BY created ASC: the matching keys in ascending order
KeysFrom(k, last_run) ==
    IF k > NumTickets THEN <<>>
    ELSE (IF Matches(k, last_run) THEN <<k>> ELSE <<>>) \o KeysFrom(k + 1, last_run)

SearchResult(last_run) == KeysFrom(1, last_run)

Entry(op, key, arg, ok) == [op |-> op, key |-> key, arg |-> arg, ok |-> ok]
NoTr == [name |-> "", listOk |-> FALSE, listing |-> <<>>, posts |-> <<>>]
NoSave == [set |-> FALSE, t |-> 0]
NoPending == [set |-> FALSE, since |-> 0, tail |-> {}, fromFile |-> FALSE]

\* whether load_last_run takes its result from the file (no default)
ReadsFromFile(f) ==
    /\ f.kind = "json"
    /\ \E v \in Lookup(f.payload, "last_run") : IsIsoText(v)

\* ------------------------------------------------------------ control
\* an exception leaves process_issues and main: nothing catches it
AfterRaiseRetry(p) == p
AfterRaiseSave(p) == "save"
AfterRaise(p) == "crashed"

\* main, line 262-264: outside the window the run returns 0
OutsideWindowContinue == "load_last_run"
OutsideWindowNext == "exited"

\* main, line 257-259: a configuration error returns 1
ConfigErrorNext == "exited"

InProcess == pc \in {"generate", "comment", "assign", "transition"}

\* the issues after the current one
UntouchedTail == {issues[i] : i \in (idx + 1) .. Len(issues)} \ {NoKey}

Raise(e) ==
    /\ pc' = AfterRaise(pc)
    /\ err' = e
    /\ ret' = "raised"
    /\ pending' = IF InProcess
                  THEN [set |-> TRUE, since |-> since, tail |-> UntouchedTail,
                        fromFile |-> ReadsFromFile(file)]
                  ELSE pending

Init ==
    /\ clock = 0
    /\ file \in {Missing, save_last_run(0)}
    /\ tickets \in [Keys -> {[assigned |-> FALSE, status |-> "To-Do",
                               comments |-> 0, updated |-> u] : u \in {0}}]
    /\ pc = "idle"
    /\ cfg = NoCfg
    /\ now = 0
    /\ since = 0
    /\ issues = <<>>
    /\ idx = 0
    /\ trIdx = 0
    /\ count = 0
    /\ log = <<>>
    /\ tr = NoTr
    /\ ret = "none"
    /\ err = "none"
    /\ fileRead = FALSE
    /\ writes = 0
    /\ lastSaved = NoSave
    /\ pending = NoPending

\* the scheduler starts the job: a new process, new locals
StartRun ==
    /\ pc \in {"idle", "exited", "crashed"}
    /\ pc' = "load_config"
    /\ cfg' = NoCfg
    /\ now' = 0
    /\ since' = 0
    /\ issues' = <<>>
    /\ idx' = 0
    /\ trIdx' = 0
    /\ count' = 0
    /\ log' = <<>>
    /\ tr' = NoTr
    /\ ret' = "none"
    /\ err' = "none"
    /\ fileRead' = FALSE
    /\ writes' = 0
    /\ UNCHANGED <<clock, file, tickets, lastSaved, pending>>

\* time passes.  The clock is read by now_local (WindowCheck) and by
\* load_last_run only, so time passing anywhere else in a run is the same
\* as time passing after the run.  Between the two reads of one run at
\* most one tick passes; any time passes between runs
Tick ==
    /\ clock < MaxClock
    /\ pc \in {"idle", "exited", "crashed", "load_last_run"}
    /\ pc = "load_last_run" => clock = now
    /\ clock' = clock + 1
    /\ UNCHANGED <<file, tickets, pc, cfg, now, since, issues, idx, trIdx, count,
                   log, tr, ret, err, fileRead, writes, lastSaved, pending>>

\* main: config = load_config(), ValueError -> return 1
LoadConfig ==
    /\ pc = "load_config"
    /\ \E ok \in BOOLEAN, w \in Windows :
          IF ok
          THEN /\ cfg' = [ok |-> TRUE, window_start |-> w[1], window_end |-> w[2]]
               /\ pc' = "window"
               /\ UNCHANGED <<ret, err>>
          ELSE /\ cfg' = NoCfg
               /\ pc' = ConfigErrorNext
               /\ ret' = "1"
               /\ err' = "ValueError"
    /\ UNCHANGED <<clock, file, tickets, now, since, issues, idx, trIdx, count,
                   log, tr, fileRead, writes, lastSaved, pending>>

\* main: now = now_local(config); outside the window -> return 0
WindowCheck ==
    /\ pc = "window"
    /\ now' = clock
    /\ IF within_reply_window(cfg.window_start, cfg.window_end, TimeOfDay(clock))
       THEN pc' = "load_last_run" /\ ret' = ret
       ELSE pc' = OutsideWindowNext /\ ret' = "0"
    /\ UNCHANGED <<clock, file, tickets, cfg, since, issues, idx, trIdx, count,
                   log, tr, err, fileRead, writes, lastSaved, pending>>

\* main: last_run = load_last_run(config.last_run_path)
LoadLastRun ==
    /\ pc = "load_last_run"
    /\ since' = load_last_run(file, clock)
    /\ fileRead' = TRUE
    /\ pc' = "search"
    /\ UNCHANGED <<clock, file, tickets, cfg, now, issues, idx, trIdx, count,
                   log, tr, ret, err, writes, lastSaved, pending>>

\* main: issues = jira_search_issues(config, last_run)
Search ==
    /\ pc = "search"
    /\ \E ok \in BOOLEAN, keyless \in BOOLEAN :
          /\ log' = Append(log, Entry("search", NoKey, "", ok))
          /\ IF ok
             THEN /\ issues' = (IF keyless THEN <<NoKey>> ELSE <<>>)
                                   \o SearchResult(since)
                  /\ pc' = "searched"
                  /\ UNCHANGED <<ret, err, pending>>
             ELSE /\ Raise("HTTPError")
                  /\ UNCHANGED issues
    /\ UNCHANGED <<clock, file, tickets, cfg, now, since, idx, trIdx, count,
                   tr, fileRead, writes, lastSaved>>

\* main: if not issues -> save and return; else process_issues(...)
CheckIssues ==
    /\ pc = "searched"
    /\ IF issues = <<>>
       THEN pc' = "save" /\ idx' = idx
       ELSE pc' = "loop" /\ idx' = 1
    /\ pending' = NoPending
    /\ UNCHANGED <<clock, file, tickets, cfg, now, since, issues, trIdx, count,
                   log, tr, ret, err, fileRead, writes, lastSaved>>

\* process_issues: for issue in issues; if not issue_key: continue
LoopHead ==
    /\ pc = "loop"
    /\ IF idx > Len(issues)
       THEN pc' = "save" /\ idx' = idx
       ELSE IF issues[idx] = NoKey
            THEN pc' = "loop" /\ idx' = idx + 1
            ELSE pc' = "generate" /\ idx' = idx
    /\ UNCHANGED <<clock, file, tickets, cfg, now, since, issues, trIdx, count,
                   log, tr, ret, err, fileRead, writes, lastSaved, pending>>

\* process_issues: reply = generate_ai_reply(config, issue)
\* without an API key the template is used and nothing can fail
Generate ==
    /\ pc = "generate"
    /\ \E hasKey \in BOOLEAN, ok \in BOOLEAN :
          /\ ~hasKey => ok
          /\ log' = Append(log, Entry("generate", issues[idx], "", ok))
          /\ IF ok
             THEN pc' = "comment" /\ UNCHANGED <<ret, err, pending>>
             ELSE Raise("HTTPError")
    /\ UNCHANGED <<clock, file, tickets, cfg, now, since, issues, idx, trIdx,
                   count, tr, fileRead, writes, lastSaved>>

\* process_issues: jira_add_comment(config, issue_key, reply)
AddComment ==
    /\ pc = "comment"
    /\ \E ok \in BOOLEAN :
          /\ ok => tickets[issues[idx]].comments < MaxComments
          /\ log' = Append(log, Entry("comment", issues[idx], "", ok))
          /\ IF ok
             THEN /\ tickets' = [tickets EXCEPT ![issues[idx]].comments = @ + 1]
                  /\ pc' = "assign"
                  /\ UNCHANGED <<ret, err, pending>>
             ELSE /\ Raise("HTTPError")
                  /\ UNCHANGED tickets
    /\ UNCHANGED <<clock, file, cfg, now, since, issues, idx, trIdx, count,
                   tr, fileRead, writes, lastSaved>>

\* process_issues: jira_assign_issue(config, issue_key, assignee_account_id)
AssignIssue ==
    /\ pc = "assign"
    /\ \E ok \in BOOLEAN :
          /\ log' = Append(log, Entry("assign", issues[idx], "", ok))
          /\ IF ok
             THEN /\ tickets' = [tickets EXCEPT ![issues[idx]].assigned = TRUE]
                  /\ pc' = "transition"
                  /\ trIdx' = 1
                  /\ UNCHANGED <<ret, err, pending>>
             ELSE /\ Raise("HTTPError")
                  /\ UNCHANGED <<tickets, trIdx>>
    /\ UNCHANGED <<clock, file, cfg, now, since, issues, idx, count,
                   tr, fileRead, writes, lastSaved>>

\* process_issues: jira_transition_issue(config, issue_key, name), for the
\* three names in order; the whole function: GET transitions, look the name
\* up, POST the id found
TransitionIssue ==
    /\ pc = "transition"
    /\ \E listOk \in BOOLEAN, listing \in Listings, postOk \in BOOLEAN :
          LET key == issues[idx]
              name == TransitionOrder[trIdx]
              found == FindTransition(listing, name)
              get == Entry("list", key, name, listOk)
          IN
          IF ~listOk
          THEN /\ log' = Append(log, get)
               /\ tr' = [name |-> name, listOk |-> FALSE, listing |-> <<>>,
                          posts |-> <<>>]
               /\ Raise("HTTPError")
               /\ UNCHANGED <<tickets, trIdx, idx, count>>
          ELSE IF found = 0
          THEN /\ log' = Append(log, get)
               /\ tr' = [name |-> name, listOk |-> TRUE, listing |-> listing,
                          posts |-> <<>>]
               /\ Raise("TransitionNotFound")
               /\ UNCHANGED <<tickets, trIdx, idx, count>>
          ELSE /\ log' = log \o <<get, Entry("transition", key, name, postOk)>>
               /\ tr' = [name |-> name, listOk |-> TRUE, listing |-> listing,
                          posts |-> <<listing[found].id>>]
               /\ IF ~postOk
                  THEN /\ Raise("HTTPError")
                       /\ UNCHANGED <<tickets, trIdx, idx, count>>
                  ELSE /\ tickets' = [tickets EXCEPT ![key].status =
                                          StatusAfter(listing[found].id)]
                       /\ IF trIdx < Len(TransitionOrder)
                          THEN /\ trIdx' = trIdx + 1
                               /\ UNCHANGED <<pc, idx, count>>
                          ELSE /\ trIdx' = 0
                               /\ count' = count + 1
                               /\ idx' = idx + 1
                               /\ pc' = "loop"
                       /\ UNCHANGED <<ret, err, pending>>
    /\ UNCHANGED <<clock, file, cfg, now, since, issues, fileRead, writes,
                   lastSaved>>

\* main: save_last_run(config.last_run_path, now); return 0
\* open(path, "w") may fail (file untouched); the dump may fail after the
\* file was truncated
SaveLastRun ==
    /\ pc = "save"
    /\ \E outcome \in {"ok", "open_failed", "write_failed"} :
          CASE outcome = "ok" ->
                 /\ file' = save_last_run(now)
                 /\ writes' = writes + 1
                 /\ lastSaved' = [set |-> TRUE, t |-> now]
                 /\ UNCHANGED pending
                 /\ ret' = "0"
                 /\ pc' = "exited"
                 /\ UNCHANGED err
            [] outcome = "open_failed" ->
                 /\ Raise("OSError")
                 /\ UNCHANGED <<file, writes, lastSaved>>
            [] outcome = "write_failed" ->
                 /\ file' = NotJson
                 /\ lastSaved' = NoSave
                 /\ Raise("OSError")
                 /\ UNCHANGED writes
    /\ UNCHANGED <<clock, tickets, cfg, now, since, issues, idx, trIdx, count,
                   log, tr, fileRead>>

Next ==
    \/ StartRun
    \/ Tick
    \/ LoadConfig
    \/ WindowCheck
    \/ LoadLastRun
    \/ Search
    \/ CheckIssues
    \/ LoopHead
    \/ Generate
    \/ AddComment
    \/ AssignIssue
    \/ TransitionIssue
    \/ SaveLastRun

Spec == Init /\ [][Next]_vars

\* ------------------------------------------------- the start of a run
\* the window check, the watermark load and the search, from every window
\* bound, every time of day and every kind of watermark file
InitStart ==
    /\ clock \in 0 .. MaxClock
    /\ file \in CorruptFiles \cup {save_last_run(0)}
    /\ tickets = [k \in Keys |-> [assigned |-> FALSE, status |-> "To-Do",
                                   comments |-> 0, updated |-> 0]]
    /\ pc = "window"
    /\ cfg \in {[ok |-> TRUE, window_start |-> s, window_end |-> e] :
                    s \in TimesOfDay, e \in TimesOfDay}
    /\ now = 0
    /\ since = 0
    /\ issues = <<>>
    /\ idx = 0
    /\ trIdx = 0
    /\ count = 0
    /\ log = <<>>
    /\ tr = NoTr
    /\ ret = "none"
    /\ err = "none"
    /\ fileRead = FALSE
    /\ writes = 0
    /\ lastSaved = NoSave
    /\ pending = NoPending

NextStart ==
    \/ WindowCheck
    \/ Tick
    \/ LoadLastRun
    \/ Search

SpecStart == InitStart /\ [][NextStart]_vars

\* ================================================================ claims
Terminal == pc \in {"exited", "crashed"}

\* the window as the specification states it
ClaimInside(s, e, t) ==
    \/ (s <= e /\ s <= t /\ t <= e)
    \/ (s > e /\ (t >= s \/ t <= e))

RunInside == ClaimInside(cfg.window_start, cfg.window_end, TimeOfDay(now))

\* C1: for every window start s, end e and time of day t, the window check
\* lets the run continue iff (s <= e and s <= t <= e) or (s > e and (t >= s
\* or t <= e)); both bounds inclusive
C1_WindowIff ==
    pc \in {"load_last_run", "search", "exited"} =>
        ((pc # "exited") <=> RunInside)

\* an overnight window, at a time before its end: inside
C1_Witness ==
    /\ pc = "load_last_run"
    /\ cfg.window_start > cfg.window_end
    /\ TimeOfDay(now) <= cfg.window_end

\* process_issues was entered by this run
ReachedProcess == idx >= 1

\* the run stopped inside process_issues, before the end of the batch
StoppedPartway ==
    /\ pc = "crashed"
    /\ ReachedProcess
    /\ idx <= Len(issues)

\* C2 as stated: every run that reaches process_issues ends with the
\* watermark file overwritten, whether processing completed or stopped
\* partway
C2_Original == (Terminal /\ ReachedProcess) => writes = 1

\* C2 amended: a run that stops partway in process_issues ends without
\* writing the watermark file and leaves its content as it was; the file
\* is written (once, with the run's now) only after process_issues has
\* gone through the whole list
C2_Amended ==
    /\ [](StoppedPartway => writes = 0)
    /\ []((pc = "exited" /\ ReachedProcess) =>
            (idx > Len(issues) /\ writes = 1 /\ file = save_last_run(now)))
    /\ [][(pc \in {"loop", "generate", "comment", "assign", "transition"})
            => file' = file]_vars

\* ticket 1 was processed, the run failed at ticket 2, no watermark written
C2_Witness ==
    /\ StoppedPartway
    /\ issues = <<1, 2>>
    /\ idx = 2
    /\ tickets[issues[1]].assigned
    /\ tickets[issues[2]].comments = 1
    /\ writes = 0

\* C3: across any sequence of runs with failing calls, no ticket ever
\* receives more than one reply comment
C3_NoDuplicateReply == \A k \in Keys : tickets[k].comments <= 1

StillCandidate(k) == ~tickets[k].assigned /\ tickets[k].status = "To-Do"
Returned(k) == \E i \in 1 .. Len(issues) : issues[i] = k

\* C4 as stated: after a run aborted in process_issues, every untouched
\* candidate after the failing one that is still unassigned and To-Do is
\* returned by the search of the next in-window run
C4_Original ==
    (pc = "searched" /\ pending.set) =>
        \A k \in pending.tail : StillCandidate(k) => Returned(k)

\* C4 amended: when the aborted run took its lower bound from a valid
\* watermark file, the next run that searches uses the same lower bound
\* and its search returns every untouched candidate that is still
\* unassigned and To-Do
C4_Amended ==
    (pc = "searched" /\ pending.set /\ pending.fromFile) =>
        /\ since = pending.since
        /\ \A k \in pending.tail : StillCandidate(k) => Returned(k)

C4_Witness ==
    /\ pc = "searched"
    /\ pending.set
    /\ pending.fromFile
    /\ \E k \in pending.tail : StillCandidate(k) /\ Returned(k)

\* the operations of one ticket, as the specification lists them
ClaimOps(k) ==
    << Entry("generate", k, "", TRUE),
       Entry("comment", k, "", TRUE),
       Entry("assign", k, "", TRUE),
       Entry("transition", k, "To-Do", TRUE),
       Entry("transition", k, "Iprogress", TRUE),
       Entry("transition", k, "Wating for clinet", TRUE) >>

RECURSIVE ClaimLog(_)
ClaimLog(ks) ==
    IF ks = <<>> THEN <<>>
    ELSE (IF Head(ks) = NoKey THEN <<>> ELSE ClaimOps(Head(ks))) \o ClaimLog(Tail(ks))

IsCall(e) == e.op # "list"
Keyed(ks) == SelectSeq(ks, LAMBDA k : k # NoKey)

\* C5: with no failing call, the operations issued are, for each candidate
\* with a key in list order, generate, comment, assign and the three
\* transitions To-Do, Iprogress, Wating for clinet, a ticket's six steps
\* before the next ticket's; the count is the number of such tickets
C5_OrderAndCount ==
    (pc = "save" /\ ReachedProcess) =>
        /\ SelectSeq(log, IsCall) =
              <<Entry("search", NoKey, "", TRUE)>> \o ClaimLog(issues)
        /\ count = Len(Keyed(issues))

\* two tickets and an issue without key went through
C5_Witness ==
    /\ pc = "save"
    /\ count = 2
    /\ Len(issues) = 3

\* C6: the first failing call ends the run: nothing is issued after it,
\* nothing is retried, the failing step changes no ticket, and no comment
\* or assignment made earlier is ever taken back
C6_FailFast ==
    /\ [](\A i \in 1 .. Len(log) : ~log[i].ok => i = Len(log))
    /\ [](err \in {"HTTPError", "TransitionNotFound"} => pc = "crashed")
    /\ []((pc # "crashed" /\ Len(log) > 0) => log[Len(log)].ok)
    /\ [][(pc' = "crashed") => (tickets' = tickets /\ (pc = "crashed" => log' = log))]_vars
    /\ [][\A k \in Keys :
            /\ tickets'[k].comments >= tickets[k].comments
            /\ tickets[k].assigned => tickets'[k].assigned]_vars

\* a missing transition after the comment and the assignment: both stay
C6_Witness ==
    /\ pc = "crashed"
    /\ err = "TransitionNotFound"
    /\ StoppedPartway
    /\ tickets[issues[idx]].comments = 1
    /\ tickets[issues[idx]].assigned

NoEffects == log = <<>> /\ ~fileRead /\ writes = 0

\* C7: a configuration error returns 1 and a time outside the window
\* returns 0; in both cases no API call is made, no ticket is touched and
\* the watermark file is neither read nor written
C7_EarlyExit ==
    /\ [](err = "ValueError" => (pc = "exited" /\ ret = "1" /\ NoEffects))
    /\ []((cfg.ok /\ pc # "window" /\ ~RunInside) =>
            (pc = "exited" /\ ret = "0" /\ NoEffects))
    /\ [][(pc \in {"load_config", "window"}) =>
            (file' = file /\ tickets' = tickets)]_vars

C7_Witness ==
    /\ pc = "exited"
    /\ ret = "0"
    /\ cfg.ok
    /\ ~RunInside
    /\ NoEffects

\* C8: a run that saves the watermark saves its own now, returns 0, writes
\* once and only after its search; the next run that loads the watermark
\* searches with exactly the saved value as lower bound
C8_SavedIsNextBound ==
    /\ writes <= 1
    /\ writes = 1 =>
          /\ pc = "exited"
          /\ ret = "0"
          /\ lastSaved = [set |-> TRUE, t |-> now]
          /\ log # <<>>
          /\ log[1] = Entry("search", NoKey, "", TRUE)
    /\ (pc \in {"search", "searched"} /\ lastSaved.set) => since = lastSaved.t

\* a later run searches from the time an earlier run of the model saved
C8_Witness ==
    /\ pc = "searched"
    /\ lastSaved.set
    /\ lastSaved.t > 0
    /\ since = lastSaved.t
    /\ clock > since

NameListed == \E i \in 1 .. Len(tr.listing) : tr.listing[i].name = tr.name

\* C9: when the listing holds a transition with exactly the name asked for,
\* one POST is issued with that transition's id; when it holds none, the
\* call fails with transition-not-found, issues no POST and leaves the
\* ticket as it was
C9_ExactName ==
    /\ []((tr.listOk /\ NameListed) =>
            /\ Len(tr.posts) = 1
            /\ \E i \in 1 .. Len(tr.listing) :
                  /\ tr.listing[i].name = tr.name
                  /\ tr.listing[i].id = tr.posts[1])
    /\ []((tr.listOk /\ ~NameListed) =>
            (tr.posts = <<>> /\ err = "TransitionNotFound" /\ pc = "crashed"))
    /\ [][(err' = "TransitionNotFound") =>
            (tickets' = tickets /\ (err # err' => log'[Len(log')].op = "list"))]_vars

\* the listing offers "iprogress" only: "Iprogress" is not found
C9_Witness ==
    /\ tr.listOk
    /\ tr.name = "Iprogress"
    /\ ~NameListed
    /\ \E i \in 1 .. Len(tr.listing) : tr.listing[i].name = "iprogress"
    /\ tr.posts = <<>>
    /\ err = "TransitionNotFound"

\* C10: with the watermark file missing, unreadable, not JSON, without the
\* last_run key or with a value that is no timestamp, load_last_run raises
\* nothing and returns the current time minus one day, and the run goes on
\* to the search with that lower bound
C10_LoadNeverFails ==
    [][(pc = "load_last_run" /\ pc' # "load_last_run" /\ file \in CorruptFiles) =>
          /\ pc' = "search"
          /\ since' = clock - DayLen
          /\ err' = "none"
          /\ ret' = "none"]_vars

C10_Witness ==
    /\ pc = "searched"
    /\ file = BadIsoFile
    /\ since = now - DayLen
    /\ log = <<Entry("search", NoKey, "", TRUE)>>

====
